---- MODULE Spec2Model ----
(***************************************************************************)
(* Link-liveness pinger: the four failure-tracking variants of             *)
(* ping-script.js found in the repository.                                 *)
(*                                                                         *)
(*   "ping_script"  src/ping-script.js        while-loop, slow from pass 2 *)
(*   "part_002"     src/unnamed/part_002      while-loop, slow from pass 5 *)
(*   "part_000"     src/unnamed/part_000:1-122   three fixed passes        *)
(*   "part_001"     src/unnamed/part_001:68-214  three fixed passes, ping  *)
(*                                               with inline retries       *)
(*                                                                         *)
(* A link object is modelled by its position 1..n in links.json; the       *)
(* value a successful ping returns (null) is NULL.                         *)
(***************************************************************************)
EXTENDS Integers, Sequences, FiniteSets, TLC

VARIABLES
    script,          \* which variant of the script is running
    input,           \* JSON.parse(fileContent): [isArray, items]
    pc,              \* position of main: start, loop, pass, final, done, exit
    currentLinks,    \* main: let currentLinks
    passCount,       \* main: let passCount
    totalSucceeded,  \* main: let totalSucceeded
    passConfigs,     \* three-pass main: batch sizes of const passConfigs
    cfgIndex,        \* three-pass main: entries of passConfigs already taken
    links,           \* pass function: parameter links
    batchSize,       \* pass function: parameter batchSize
    failedLinks,     \* pass function: const failedLinks
    i,               \* pass function: loop position (offset of the chunk / link)
    promises,        \* pass function: the ping calls being awaited
    ppc,             \* position of the pass function: idle, loop, await, sleep, ret
    unresolvableFile,\* content written to unresolvable_links.json
    outcome,         \* which final message main logged
    succeeded,       \* history: links for which some fetch answered ok
    passesRun,       \* history: number of calls of the pass function
    prevFailed,      \* history: list returned by the latest finished pass
    anyFetch,        \* history: whether any fetch was issued
    widths,          \* history: concurrency width of each pass started so far
    chunks,          \* history: the chunks the running pass has formed
    pingLog,         \* history of the running pass: l = ping(l) called, 0 = a
                     \* sleep(RETRY_DELAY_MS) of the sequential loop is over
    settled,         \* history: slots of promises in the order their pings returned
    observe          \* whether the run keeps the history settled

vars == << script, input, pc, currentLinks, passCount, totalSucceeded,
           passConfigs, cfgIndex, links, batchSize, failedLinks, i, promises,
           ppc, unresolvableFile, outcome, succeeded, passesRun, prevFailed,
           anyFetch, widths, chunks, pingLog, settled, observe >>

mainVars == << currentLinks, passCount, totalSucceeded, passConfigs, cfgIndex >>
passVars == << links, batchSize, failedLinks, i, promises, ppc >>
outVars  == << unresolvableFile, outcome >>
histVars == << succeeded, passesRun, prevFailed, anyFetch >>
logVars  == << widths, chunks, pingLog >>

----------------------------------------------------------------------------
(* Bounds of the model *)

MaxLinks == 3          \* longest links.json explored
MaxChunkLinks == 6     \* longest links.json explored for the chunking of a pass
RandomGrain == 3       \* Math.random() is drawn from {0/g, 1/g, .., (g-1)/g}

(* Program constants *)

SLOW_PASS_START_COUNT == 5
MIN_RANDOM_BATCH == 5
MAX_RANDOM_BATCH == 15
MAX_PING_ATTEMPTS == 3

NULL == 0

LoopScripts == {"ping_script", "part_002"}
ThreePassScripts == {"part_000", "part_001"}
Scripts == LoopScripts \cup ThreePassScripts

FetchOutcomes == {"ok", "bad_status", "network_error"}

\* No run of the unmodified scripts comes near this many passes; the cap only
\* keeps a non-terminating variant of the loop finite.
PassCap == MaxLinks + MaxChunkLinks + SLOW_PASS_START_COUNT + 2

BATCH_SIZE(s) == IF s = "ping_script" THEN 50 ELSE 15

Inputs ==
    {[isArray |-> FALSE, items |-> << >>]} \cup
    {[isArray |-> TRUE, items |-> [k \in 1..n |-> k]] : n \in 0..MaxLinks}

\* lists long enough for a random batch size to cut them into several chunks
ChunkInputs ==
    {[isArray |-> TRUE, items |-> [k \in 1..n |-> k]] : n \in 1..MaxChunkLinks}
ChunkScripts == {"ping_script", "part_000"}

----------------------------------------------------------------------------
(* Pure helpers *)

Min(a, b) == IF a < b THEN a ELSE b

\* links.slice(from, to) with 0-based offsets, as Array.prototype.slice
sliceLengthAsEnd(l, from, to) ==
    [k \in 1..(Min(to - from, Len(l)) - Min(from, Min(to - from, Len(l)))) |->
        l[Min(from, Len(l)) + k]]
slice(l, from, to) ==
    [k \in 1..(Min(to, Len(l)) - Min(from, Len(l))) |-> l[Min(from, Len(l)) + k]]

\* links.slice(from, to) leaves the array it is called on as it was
arrayAfterSplice(l, from, to) ==
    [k \in 1..(Len(l) - Len(slice(l, from, to))) |->
        IF k <= Min(from, Len(l)) THEN l[k] ELSE l[k + Len(slice(l, from, to))]]
arrayAfterSlice(l, from, to) == l

\* Math.floor(Math.random() * (MAX - MIN + 1)) + MIN, Math.random() = r / RandomGrain
getRandomBatchSize(r) ==
    ((r * (MAX_RANDOM_BATCH - MIN_RANDOM_BATCH + 1)) \div RandomGrain) + MIN_RANDOM_BATCH

\* if (!Array.isArray(currentLinks) || currentLinks.length === 0) return;
EmptyGuardNoLength(inp) == ~inp.isArray
EmptyGuard(inp) == ~inp.isArray \/ Len(inp.items) = 0

\* pingPass: passCount === 1   /   passCount < SLOW_PASS_START_COUNT
isFastPassFlipped(s, n) ==
    IF s = "ping_script" THEN n # 1 ELSE n >= SLOW_PASS_START_COUNT
isFastPassAlways(s, n) == TRUE
isFastPass(s, n) ==
    IF s = "ping_script" THEN n = 1 ELSE n < SLOW_PASS_START_COUNT

\* the second break of the while loop
StagnationGuardNever(s, failed, cur, n) == FALSE
StagnationGuardAnyPass(s, failed, cur, n) == Len(failed) = Len(cur)
StagnationGuardOneLater(s, failed, cur, n) ==
    Len(failed) = Len(cur) /\ n > (IF s = "ping_script" THEN 3 ELSE SLOW_PASS_START_COUNT)
StagnationGuard(s, failed, cur, n) ==
    IF s = "ping_script"
    THEN Len(failed) = Len(cur) /\ n > 2
    ELSE ~isFastPass(s, n) /\ Len(failed) = Len(cur)

\* three-pass main: if (currentLinks.length === 0) break;
EarlyExitNever(cur) == FALSE
EarlyExit(cur) == Len(cur) = 0

\* The call ping(linkObj) up to its first await: attempt 1 has issued its fetch.
pingCall(l) == [link |-> l, st |-> "fetch", attempt |-> 1, fails |-> 0, res |-> NULL]

\* ping of ping-script.js, part_002 and part_000 when the fetch settles
pingNoCatch(p, o) ==
    IF o = "ok"
    THEN [p EXCEPT !.st = "done", !.res = NULL]
    ELSE IF o = "bad_status"
         THEN [p EXCEPT !.st = "done", !.res = p.link, !.fails = @ + 1]
         ELSE [p EXCEPT !.st = "rejected", !.fails = @ + 1]
pingCatchReturnsNull(p, o) ==
    IF o = "bad_status"
    THEN [p EXCEPT !.st = "done", !.res = p.link, !.fails = @ + 1]
    ELSE [p EXCEPT !.st = "done", !.res = NULL]
ping(p, o) ==
    IF o = "ok"
    THEN [p EXCEPT !.st = "done", !.res = NULL]
    ELSE [p EXCEPT !.st = "done", !.res = p.link, !.fails = @ + 1]

\* ping of part_001 (inline retries) when the fetch of the current attempt settles
pingRetryGiveUpEarly(p, o) ==
    IF o = "ok"
    THEN [p EXCEPT !.st = "done", !.res = NULL]
    ELSE [p EXCEPT !.st = "done", !.res = p.link, !.fails = @ + 1]
pingRetry(p, o) ==
    IF o = "ok"
    THEN [p EXCEPT !.st = "done", !.res = NULL]
    ELSE IF p.attempt = MAX_PING_ATTEMPTS
         THEN [p EXCEPT !.st = "done", !.res = p.link, !.fails = @ + 1]
         ELSE [p EXCEPT !.st = "sleep", !.fails = @ + 1]

\* the ping of script s resumes with fetch outcome o
pingSettles(s, p, o) == IF s = "part_001" THEN pingRetry(p, o) ELSE ping(p, o)

\* results.forEach(failedLink => { if (failedLink) failedLinks.push(failedLink) })
RECURSIVE collectAll(_, _)
collectAll(failed, ps) ==
    IF ps = << >> THEN failed
    ELSE collectAll(Append(failed, Head(ps).link), Tail(ps))
collectAsSettled(failed, ps) ==
    failed \o SelectSeq([j \in 1..Len(settled) |-> ps[settled[j]].res],
                        LAMBDA r : r # NULL)
RECURSIVE collect(_, _)
collect(failed, ps) ==
    IF ps = << >> THEN failed
    ELSE collect(IF Head(ps).res # NULL THEN Append(failed, Head(ps).res) ELSE failed,
                 Tail(ps))

\* the number of pings a pass keeps in flight: the chunk size of the Promise.all
\* loop, one in the sequential loop
passWidth(s, n, bs) ==
    IF s \in ThreePassScripts \/ isFastPass(s, n) THEN bs ELSE 1

\* whether the running pass is the chunked Promise.all loop
Concurrent == script \in ThreePassScripts \/ isFastPass(script, passCount)

SomeDone == \E k \in DOMAIN promises : promises[k].st = "done"
AllDone == \A k \in DOMAIN promises : promises[k].st = "done"

Range(s) == {s[k] : k \in DOMAIN s}

----------------------------------------------------------------------------
InitRest ==
    /\ pc = "start"
    /\ currentLinks = << >>
    /\ passCount = 0
    /\ totalSucceeded = 0
    /\ passConfigs = << >>
    /\ cfgIndex = 0
    /\ links = << >>
    /\ batchSize = 0
    /\ failedLinks = << >>
    /\ i = 0
    /\ promises = << >>
    /\ ppc = "idle"
    /\ unresolvableFile = << >>
    /\ outcome = "none"
    /\ succeeded = {}
    /\ passesRun = 0
    /\ prevFailed = << >>
    /\ anyFetch = FALSE
    /\ widths = << >>
    /\ chunks = << >>
    /\ pingLog = << >>
    /\ settled = << >>

Init ==
    /\ script \in Scripts
    /\ input \in Inputs
    /\ observe = FALSE
    /\ InitRest

\* main up to the retry loop: parse links.json, leave on empty input, set up
Load ==
    /\ pc = "start"
    /\ IF EmptyGuard(input)
       THEN /\ pc' = "exit"
            /\ outcome' = "no_links"
            /\ UNCHANGED << mainVars, unresolvableFile >>
       ELSE /\ pc' = "loop"
            /\ currentLinks' = input.items
            /\ IF script \in ThreePassScripts
               THEN \E r1, r2 \in 0..(RandomGrain - 1) :
                       passConfigs' = << getRandomBatchSize(r1), getRandomBatchSize(r2), 1 >>
               ELSE passConfigs' = passConfigs
            /\ UNCHANGED << passCount, totalSucceeded, cfgIndex, outVars >>
    /\ UNCHANGED << script, input, observe, passVars, histVars, logVars, settled >>

\* the call of pingPass / concurrentPingPass up to its loop
CallPass(ls, bs, n) ==
    /\ pc' = "pass"
    /\ links' = ls
    /\ batchSize' = bs
    /\ failedLinks' = << >>
    /\ i' = 0
    /\ promises' = << >>
    /\ ppc' = "loop"
    /\ passesRun' = passesRun + 1
    /\ widths' = Append(widths, passWidth(script, n, bs))
    /\ chunks' = << >>
    /\ pingLog' = << >>
    /\ settled' = << >>

\* while (currentLinks.length > 0) { passCount++; ... await pingPass(...)
WhileLoopHead ==
    /\ pc = "loop"
    /\ script \in LoopScripts
    /\ passCount < PassCap
    /\ IF Len(currentLinks) > 0
       THEN /\ passCount' = passCount + 1
            /\ CallPass(currentLinks, BATCH_SIZE(script), passCount + 1)
       ELSE /\ pc' = "final"
            /\ UNCHANGED << passCount, passVars, passesRun, logVars, settled >>
    /\ UNCHANGED << script, input, observe, currentLinks, totalSucceeded, passConfigs,
                    cfgIndex, outVars, succeeded, prevFailed, anyFetch >>

\* for (const [batchSize, description] of passConfigs) { passCount++; if (...) break; ...
ForLoopHead ==
    /\ pc = "loop"
    /\ script \in ThreePassScripts
    /\ IF cfgIndex < Len(passConfigs)
       THEN /\ cfgIndex' = cfgIndex + 1
            /\ passCount' = passCount + 1
            /\ IF EarlyExit(currentLinks)
               THEN /\ pc' = "final"
                    /\ UNCHANGED << passVars, passesRun, logVars, settled >>
               ELSE CallPass(currentLinks, passConfigs[cfgIndex + 1], passCount + 1)
       ELSE /\ pc' = "final"
            /\ UNCHANGED << cfgIndex, passCount, passVars, passesRun, logVars, settled >>
    /\ UNCHANGED << script, input, observe, currentLinks, totalSucceeded, passConfigs,
                    outVars, succeeded, prevFailed, anyFetch >>

\* concurrent loop: take the next chunk and call ping on each of its links
ChunkStart ==
    /\ pc = "pass" /\ ppc = "loop" /\ Concurrent
    /\ i < Len(links)
    /\ promises' = promises \o [k \in DOMAIN slice(links, i, i + batchSize) |->
                                    pingCall(slice(links, i, i + batchSize)[k])]
    \* links is the array main holds as currentLinks
    /\ links' = arrayAfterSlice(links, i, i + batchSize)
    /\ currentLinks' = links'
    /\ ppc' = "await"
    /\ anyFetch' = TRUE
    /\ chunks' = Append(chunks, slice(links, i, i + batchSize))
    /\ pingLog' = pingLog \o slice(links, i, i + batchSize)
    /\ settled' = << >>
    /\ UNCHANGED << script, input, observe, pc, passCount, totalSucceeded, passConfigs, cfgIndex,
                    batchSize, failedLinks, i, outVars, succeeded, passesRun,
                    prevFailed, widths >>

\* sequential loop: await ping(linkObj) for the next link
SeqPingStart ==
    /\ pc = "pass" /\ ppc = "loop" /\ ~Concurrent
    /\ i < Len(links)
    /\ promises' = << pingCall(links[i + 1]) >>
    /\ ppc' = "await"
    /\ anyFetch' = TRUE
    /\ pingLog' = Append(pingLog, links[i + 1])
    /\ settled' = << >>
    /\ UNCHANGED << script, input, observe, pc, mainVars, links, batchSize, failedLinks, i,
                    outVars, succeeded, passesRun, prevFailed, widths, chunks >>

\* the fetch of one pending ping settles, with any outcome
FetchReturn ==
    /\ pc = "pass" /\ ppc = "await"
    /\ \E k \in DOMAIN promises, o \in FetchOutcomes :
          /\ promises[k].st = "fetch"
          /\ promises' = [promises EXCEPT ![k] = pingSettles(script, @, o)]
          /\ succeeded' = IF o = "ok" THEN succeeded \cup {promises[k].link}
                          ELSE succeeded
          /\ settled' = IF observe /\ pingSettles(script, promises[k], o).st = "done"
                        THEN Append(settled, k) ELSE settled
    /\ UNCHANGED << script, input, observe, pc, mainVars, links, batchSize, failedLinks, i,
                    ppc, outVars, passesRun, prevFailed, anyFetch, logVars >>

\* part_001 ping: await sleep(RETRY_DELAY_MS) is over, the next attempt fetches
RetrySleepReturn ==
    /\ pc = "pass" /\ ppc = "await"
    /\ \E k \in DOMAIN promises :
          /\ promises[k].st = "sleep"
          /\ promises' = [promises EXCEPT ![k].st = "fetch", ![k].attempt = @ + 1]
    /\ UNCHANGED << script, input, observe, settled, pc, mainVars, links, batchSize, failedLinks, i,
                    ppc, outVars, histVars, logVars >>

\* await Promise.all(promises) resumes: collect the failures, next chunk
ChunkDone ==
    /\ pc = "pass" /\ ppc = "await" /\ Concurrent
    /\ AllDone
    /\ failedLinks' = collect(failedLinks, promises)
    /\ i' = i + batchSize
    \* a ping that has not settled keeps running
    /\ promises' = SelectSeq(promises, LAMBDA p : p.st # "done")
    /\ ppc' = "loop"
    /\ UNCHANGED << script, input, observe, settled, pc, mainVars, links, batchSize, outVars, histVars,
                    logVars >>

\* await ping(linkObj) resumes: push on failure, start sleep(RETRY_DELAY_MS)
SeqPingDone ==
    /\ pc = "pass" /\ ppc = "await" /\ ~Concurrent
    /\ AllDone
    /\ failedLinks' = collect(failedLinks, promises)
    /\ promises' = << >>
    /\ ppc' = "sleep"
    /\ UNCHANGED << script, input, observe, settled, pc, mainVars, links, batchSize, i, outVars, histVars,
                    logVars >>

\* await sleep(RETRY_DELAY_MS) resumes: next link
SeqSleepDone ==
    /\ pc = "pass" /\ ppc = "sleep"
    /\ i' = i + 1
    /\ ppc' = "loop"
    /\ pingLog' = Append(pingLog, 0)
    /\ UNCHANGED << script, input, observe, settled, pc, mainVars, links, batchSize, failedLinks,
                    promises, outVars, histVars, widths, chunks >>

\* the loop of the pass function is over: return failedLinks
PassLoopEnd ==
    /\ pc = "pass" /\ ppc = "loop"
    /\ i >= Len(links)
    /\ ppc' = "ret"
    /\ UNCHANGED << script, input, observe, settled, pc, mainVars, links, batchSize, failedLinks, i,
                    promises, outVars, histVars, logVars >>

\* while-loop main after await pingPass: count, the two breaks, next input
WhilePassReturn ==
    /\ pc = "pass" /\ ppc = "ret"
    /\ script \in LoopScripts
    /\ totalSucceeded' = totalSucceeded + (Len(currentLinks) - Len(failedLinks))
    /\ IF Len(failedLinks) = 0
       THEN /\ pc' = "final"
            /\ currentLinks' = currentLinks
       ELSE IF StagnationGuard(script, failedLinks, currentLinks, passCount)
            THEN /\ pc' = "final"
                 /\ currentLinks' = currentLinks
            ELSE /\ pc' = "loop"
                 /\ currentLinks' = failedLinks
    /\ prevFailed' = failedLinks
    /\ ppc' = "idle"
    /\ settled' = << >>
    /\ UNCHANGED << script, input, observe, passCount, passConfigs, cfgIndex, links, batchSize,
                    failedLinks, i, promises, outVars, succeeded, passesRun, anyFetch,
                    logVars >>

\* three-pass main after await concurrentPingPass: count, next input
ForPassReturn ==
    /\ pc = "pass" /\ ppc = "ret"
    /\ script \in ThreePassScripts
    /\ totalSucceeded' = totalSucceeded + (Len(currentLinks) - Len(failedLinks))
    /\ currentLinks' = failedLinks
    /\ pc' = "loop"
    /\ prevFailed' = failedLinks
    /\ ppc' = "idle"
    /\ settled' = << >>
    /\ UNCHANGED << script, input, observe, passCount, passConfigs, cfgIndex, links, batchSize,
                    failedLinks, i, promises, outVars, succeeded, passesRun, anyFetch,
                    logVars >>

\* --- Final Output ---
FinalOutput ==
    /\ pc = "final"
    /\ pc' = "done"
    /\ IF Len(currentLinks) > 0
       THEN /\ unresolvableFile' = currentLinks
            /\ outcome' = "unresolved"
       ELSE /\ outcome' = "all_ok"
            /\ UNCHANGED unresolvableFile
    /\ UNCHANGED << script, input, observe, settled, mainVars, passVars, histVars, logVars >>

Next ==
    \/ Load
    \/ WhileLoopHead
    \/ ForLoopHead
    \/ ChunkStart
    \/ SeqPingStart
    \/ FetchReturn
    \/ RetrySleepReturn
    \/ ChunkDone
    \/ SeqPingDone
    \/ SeqSleepDone
    \/ PassLoopEnd
    \/ WhilePassReturn
    \/ ForPassReturn
    \/ FinalOutput

Spec == Init /\ [][Next]_vars

\* The event loop resumes every continuation that is ready, and every fetch and
\* every timer settles: each step of the while-loop scripts is taken if it stays
\* enabled.
LoopInit == Init /\ script \in LoopScripts

LoopNext ==
    \/ Load
    \/ WhileLoopHead
    \/ ChunkStart
    \/ SeqPingStart
    \/ FetchReturn
    \/ ChunkDone
    \/ SeqPingDone
    \/ SeqSleepDone
    \/ PassLoopEnd
    \/ WhilePassReturn
    \/ FinalOutput

LoopSpec == LoopInit /\ [][LoopNext]_vars /\ WF_vars(LoopNext)

\* The chunking of a pass: lists longer than the smallest random batch size,
\* for the two scripts without inline retries that differ in their pass function.
ChunkInit ==
    /\ script \in ChunkScripts
    /\ input \in ChunkInputs
    /\ observe = FALSE
    /\ InitRest

ChunkNext ==
    \/ Load
    \/ WhileLoopHead
    \/ ForLoopHead
    \/ ChunkStart
    \/ SeqPingStart
    \/ FetchReturn
    \/ ChunkDone
    \/ SeqPingDone
    \/ SeqSleepDone
    \/ PassLoopEnd
    \/ WhilePassReturn
    \/ ForPassReturn
    \/ FinalOutput

ChunkSpec == ChunkInit /\ [][ChunkNext]_vars

\* fetch(url, { method: 'HEAD', redirect: 'follow' }) is given no signal and no
\* timeout: a fetch to an unresponsive target stays pending; nothing settles it.
FetchHangs ==
    /\ pc = "pass" /\ ppc = "await"
    /\ \E k \in DOMAIN promises :
          /\ promises[k].st = "fetch"
          /\ promises' = [promises EXCEPT ![k].st = "hung"]
    /\ UNCHANGED << script, input, observe, settled, pc, mainVars, links, batchSize, failedLinks, i,
                    ppc, outVars, histVars, logVars >>

\* The while-loop scripts with targets that may never answer; every step that
\* is ready is still taken.
HangNext == LoopNext \/ FetchHangs

HangSpec == LoopInit /\ [][HangNext]_vars /\ WF_vars(HangNext)

\* All four scripts, with the order in which the pings of a chunk return kept
\* as history.
OrderInit ==
    /\ script \in Scripts
    /\ input \in Inputs
    /\ observe = TRUE
    /\ InitRest

OrderSpec == OrderInit /\ [][Next]_vars

----------------------------------------------------------------------------
(* Properties *)

Original == Range(input.items)
NeverSucceeded == Original \ succeeded
AtPassBoundary == pc \in {"loop", "final", "done"}

\* C1: at every pass boundary, the loop exits included, totalSucceeded plus the
\* length of currentLinks equals the number of links loaded.
C1_Conservation ==
    AtPassBoundary => totalSucceeded + Len(currentLinks) = Len(input.items)

\* C2: a link whose probe succeeded in some pass is not in the list main writes
\* to unresolvable_links.json.
C2_SucceededNotUnresolved ==
    pc = "done" => Range(unresolvableFile) \cap succeeded = {}

\* C3: the run ends with "all links successfully pinged" exactly when every
\* loaded link succeeded in some pass, otherwise with a non-empty unresolved
\* list; a last pass without failures ends in the all-resolved outcome.
C3_OutcomeMatchesResolution ==
    pc = "done" =>
        /\ (outcome = "all_ok") <=> (Original \subseteq succeeded)
        /\ outcome # "all_ok" => (outcome = "unresolved" /\ Len(unresolvableFile) > 0)
        /\ (passesRun > 0 /\ Len(prevFailed) = 0) => outcome = "all_ok"

\* C4: in the while-loop scripts, once a slow sequential pass has returned as
\* many failed links as it was given, the controller has stopped: main is at its
\* final output and no further pass gets started.
C4_StagnantSlowPassStops ==
    ( /\ script \in LoopScripts
      /\ passesRun > 0
      /\ ppc = "idle"
      /\ ~isFastPass(script, passCount)
      /\ Len(prevFailed) = Len(links) )
    => pc \in {"final", "done"}

\* C5: in the while-loop scripts every run on a non-empty list eventually
\* reaches the final output, whatever the probes answer.
C5_LoopTerminates ==
    (pc = "loop" /\ script \in LoopScripts) ~> (pc = "done")

C5_Witness ==
    /\ script \in LoopScripts
    /\ pc = "done"
    /\ succeeded = {}
    /\ Len(input.items) = MaxLinks

\* C6: the three-pass scripts call the pass function at most 3 times, and never
\* with an empty list.
C6_AtMostThreePasses ==
    script \in ThreePassScripts =>
        /\ passesRun <= 3
        /\ passesRun <= cfgIndex
        /\ pc = "pass" => Len(links) > 0

C6_Witness ==
    /\ script \in ThreePassScripts
    /\ pc = "final"
    /\ passesRun = 2
    /\ cfgIndex = 3
    /\ Len(currentLinks) = 0

\* C7: the list given to a pass after the first is exactly the list the pass
\* before it returned; what a pass returns lies within what it was given; a
\* link that has succeeded is never probed again.
C7_NextInputIsFailedSubset ==
    pc = "pass" =>
        /\ passesRun > 1 => links = prevFailed
        /\ Range(failedLinks) \subseteq Range(links)
        /\ (ppc = "loop" /\ i = 0) => Range(links) \cap succeeded = {}
        /\ \A k \in DOMAIN promises :
              promises[k].st # "done" => promises[k].link \notin succeeded

C7_Witness ==
    /\ pc = "pass"
    /\ passesRun = 2
    /\ ppc = "await"
    /\ succeeded # {}
    /\ Len(links) < Len(input.items)

\* C8: when the run has ended, every loaded link that never answered ok is in
\* the unresolved list.
C8_DeadLinkUnresolved ==
    pc = "done" => NeverSucceeded \subseteq Range(unresolvableFile)

C8_Witness ==
    /\ pc = "done"
    /\ NeverSucceeded # {}
    /\ succeeded # {}
    /\ ~Concurrent

\* C9: on an empty list, or on input that is no array, main runs no pass,
\* issues no fetch, counts no success and writes no unresolved list.
C9_EmptyInputDoesNothing ==
    (~input.isArray \/ Len(input.items) = 0) =>
        /\ passCount = 0
        /\ passesRun = 0
        /\ ~anyFetch
        /\ totalSucceeded = 0
        /\ unresolvableFile = << >>
        /\ outcome \in {"none", "no_links"}

C9_Witness ==
    /\ pc = "exit"
    /\ input.isArray
    /\ Len(input.items) = 0
    /\ outcome = "no_links"

\* C10: the retrying ping of part_001 makes between 1 and MAX_PING_ATTEMPTS
\* fetches; it returns null at its first ok answer and the link only after
\* MAX_PING_ATTEMPTS failed fetches; a link that answered ok is not failed.
C10_InlineRetryAttempts ==
    script = "part_001" =>
        /\ \A k \in DOMAIN promises :
              LET p == promises[k] IN
              /\ p.attempt \in 1..MAX_PING_ATTEMPTS
              /\ (p.st = "done" /\ p.res = NULL) => p.fails = p.attempt - 1
              /\ (p.st = "done" /\ p.res # NULL) =>
                     (p.res = p.link /\ p.fails = MAX_PING_ATTEMPTS
                                     /\ p.attempt = MAX_PING_ATTEMPTS)
              /\ p.st # "done" => p.fails = (IF p.st = "sleep" THEN p.attempt
                                             ELSE p.attempt - 1)
        /\ Range(failedLinks) \cap succeeded = {}

C10_Witness ==
    /\ script = "part_001"
    /\ passCount = 1
    /\ \E k \in DOMAIN promises :
          /\ promises[k].st = "done"
          /\ promises[k].fails = 2
          /\ promises[k].attempt = 3
          /\ promises[k].res = NULL

\* C11 as stated: the concurrency width never increases from one pass to the next.
C11_WidthNeverIncreases ==
    \A k \in 1..(Len(widths) - 1) : widths[k + 1] <= widths[k]

\* C11 as amended: the width never increases from one pass to the next, except
\* from pass 1 to pass 2 of the three-pass scripts, whose widths are two
\* independent draws of getRandomBatchSize.
C11_WidthNeverIncreasesButRandomPair ==
    \A k \in 1..(Len(widths) - 1) :
        \/ widths[k + 1] <= widths[k]
        \/ (script \in ThreePassScripts /\ k = 1)

C11_Witness ==
    /\ script \in ThreePassScripts
    /\ Len(widths) = 3
    /\ widths[1] < widths[2]
    /\ widths[3] < widths[2]
    /\ ppc = "await"

Pending == {k \in DOMAIN promises : promises[k].st # "done"}

\* C12: in a concurrent pass with batch size W at most W pings are in flight,
\* every ping in flight belongs to the chunk formed last, and the pass is at its
\* loop head (about to form the next chunk, or to return) only with no ping of
\* an earlier chunk still in flight.
C12_ChunksDoNotOverlap ==
    (pc = "pass" /\ Concurrent) =>
        /\ Cardinality(Pending) <= batchSize
        /\ \A k \in Pending :
              chunks # << >> /\ promises[k].link \in Range(chunks[Len(chunks)])
        /\ ppc \in {"loop", "ret"} => Pending = {}

C12_Witness ==
    /\ pc = "pass" /\ ppc = "await"
    /\ batchSize = MIN_RANDOM_BATCH
    /\ Len(chunks) = 2
    /\ Len(chunks[1]) = MIN_RANDOM_BATCH
    /\ Pending # {}

RECURSIVE Flatten(_)
Flatten(ss) == IF ss = << >> THEN << >> ELSE Head(ss) \o Flatten(Tail(ss))

CeilDiv(n, w) == (n + w - 1) \div w

\* C13: a concurrent pass over N links with batch size W has formed, when it
\* returns, exactly ceil(N/W) chunks: all but the last of exactly W links, the
\* last of 1..W links, and their concatenation in order is the input list.
C13_ChunkingIsCeilNOverW ==
    (pc = "pass" /\ Concurrent) =>
        /\ \A k \in DOMAIN chunks :
              /\ Len(chunks[k]) \in 1..batchSize
              /\ k < Len(chunks) => Len(chunks[k]) = batchSize
        /\ Flatten(chunks) = SubSeq(links, 1, Len(Flatten(chunks)))
        /\ ppc = "ret" =>
              /\ Len(chunks) = CeilDiv(Len(links), batchSize)
              /\ Flatten(chunks) = links

C13_Witness ==
    /\ pc = "pass" /\ ppc = "ret"
    /\ batchSize = MIN_RANDOM_BATCH
    /\ Len(links) = MIN_RANDOM_BATCH + 1
    /\ Len(chunks) = 2

PingCalls(l) == Cardinality({k \in DOMAIN pingLog : pingLog[k] = l})

\* C14: in every pass ping is called at most once for each link of the input
\* list, and exactly once by the time the pass returns, whatever the probes of
\* the pass answered.
C14_EachLinkPingedOnce ==
    pc = "pass" =>
        /\ \A k \in DOMAIN links : PingCalls(links[k]) <= 1
        /\ \A k \in DOMAIN pingLog : pingLog[k] = 0 \/ pingLog[k] \in Range(links)
        /\ ppc = "ret" => \A k \in DOMAIN links : PingCalls(links[k]) = 1

C14_Witness ==
    /\ pc = "pass" /\ ppc = "ret"
    /\ Len(links) = MaxLinks
    /\ failedLinks # << >>
    /\ Head(failedLinks) = Head(links)
    /\ Len(failedLinks) < Len(links)

\* the passes the while-loop scripts run in slow sequential mode
SlowPassNumber ==
    \/ script = "ping_script" /\ passCount >= 2
    \/ script = "part_002" /\ passCount >= SLOW_PASS_START_COUNT

\* ping(links[1]), delay, ping(links[2]), delay, ...
ProbeThenDelay ==
    \A k \in DOMAIN pingLog :
        pingLog[k] = (IF k % 2 = 1 THEN links[(k + 1) \div 2] ELSE 0)

\* ping(links[1]), ping(links[2]), ... with no delay step
InOrderNoDelay ==
    /\ Len(pingLog) <= Len(links)
    /\ pingLog = SubSeq(links, 1, Len(pingLog))

\* C15 as stated: in every pass at concurrency 1, the third pass of the
\* three-pass scripts included, links are probed one at a time in input order
\* and a delay step completes after each probe before the next probe starts.
C15_SequentialWithDelay ==
    (pc = "pass" /\ (SlowPassNumber \/ (script \in ThreePassScripts /\ batchSize = 1))) =>
        /\ Cardinality(Pending) <= 1
        /\ ProbeThenDelay

\* C15 as amended: in every pass at concurrency 1 links are probed one at a
\* time in input order; a delay step follows each probe before the next one
\* only in the slow sequential mode of the while-loop scripts, while the
\* batch-size-1 third pass of the three-pass scripts has no delay step.
C15_SequentialDelayOnlyInLoopScripts ==
    pc = "pass" =>
        /\ SlowPassNumber => (Cardinality(Pending) <= 1 /\ ProbeThenDelay)
        /\ (script \in ThreePassScripts /\ batchSize = 1) =>
              (Cardinality(Pending) <= 1 /\ InOrderNoDelay)

C15_Witness ==
    /\ pc = "pass" /\ ppc = "await"
    /\ SlowPassNumber
    /\ Len(pingLog) = 3
    /\ pingLog[2] = 0

\* C16: a probe that never returns does not block its chunk or pass forever:
\* the run still reaches its final output.
C16_HungProbeDoesNotBlock ==
    (\E k \in DOMAIN promises : promises[k].st = "hung") ~> (pc = "done")

\* C17: ping never throws: for every outcome of the fetch it resumes from, it
\* returns null on an ok response and otherwise the link object (part_001: or
\* goes on to its next attempt); no ping call is ever rejected, so no
\* Promise.all of a chunk is.
C17_PingNeverThrows ==
    \A k \in DOMAIN promises :
        LET p == promises[k] IN
        /\ p.st \in {"fetch", "sleep", "done"}
        /\ p.st = "done" => p.res \in {NULL, p.link}
        /\ p.st = "fetch" =>
              \A o \in FetchOutcomes :
                  LET q == pingSettles(script, p, o) IN
                  /\ o = "ok" => (q.st = "done" /\ q.res = NULL)
                  /\ o # "ok" =>
                        \/ q.st = "done" /\ q.res = p.link
                        \/ script = "part_001" /\ q.st = "sleep"
                                                /\ p.attempt < MAX_PING_ATTEMPTS

C17_Witness ==
    /\ pc = "pass" /\ ppc = "await"
    /\ \E k \in DOMAIN promises : promises[k].st = "done" /\ promises[k].res # NULL
    /\ \E k \in DOMAIN promises : promises[k].st = "done" /\ promises[k].res = NULL
    /\ \E k \in DOMAIN promises : promises[k].st = "fetch"

C20_MainStateFrozenDuringPass ==
    [][ /\ (currentLinks' # currentLinks \/ totalSucceeded' # totalSucceeded
                                          \/ passCount' # passCount)
            => (pc \in {"start", "loop"} \/ (pc = "pass" /\ ppc = "ret"))
        /\ (pc = "pass" /\ ppc = "await" /\ ppc' = "await")
            => /\ failedLinks' = failedLinks /\ links' = links /\ i' = i
               /\ DOMAIN promises' = DOMAIN promises
               /\ Cardinality({k \in DOMAIN promises : promises'[k] # promises[k]}) <= 1
      ]_vars

C20_Witness ==
    /\ script \in ThreePassScripts
    /\ pc = "pass" /\ ppc = "await"
    /\ passCount = 2
    /\ Cardinality(Pending) >= 2
    /\ \E k \in DOMAIN promises : promises[k].st = "done"

\* the passes of the while-loop scripts that the second break does not guard
UnguardedPasses == IF script = "ping_script" THEN 2 ELSE SLOW_PASS_START_COUNT - 1

\* C21: on N >= 1 links the while-loop scripts run at most 4 + N passes
\* (part_002) and at most 2 + N passes (ping-script.js), whatever the probes
\* answer: every guarded pass that does not end the run is given fewer links
\* than the pass before it.
C21_PassCountBounded ==
    (script \in LoopScripts /\ Len(input.items) >= 1) =>
        /\ passesRun <= UnguardedPasses + Len(input.items)
        /\ passCount <= UnguardedPasses + Len(input.items)
        /\ (pc = "pass" /\ passCount > UnguardedPasses) =>
               Len(links) + passCount <= UnguardedPasses + 1 + Len(input.items)

C21_Witness ==
    /\ script = "part_002"
    /\ pc = "done"
    /\ Len(input.items) = MaxLinks
    /\ passesRun = (SLOW_PASS_START_COUNT - 1) + MaxLinks
    /\ outcome = "unresolved"

\* C22: the pass count main reports in its final message ("after ${passCount}
\* passes") equals the number of passes executed, the calls of the pass
\* function, in every script and however the loop ended.
C22_ReportedPassesAreExecuted ==
    pc = "done" => passCount = passesRun

\* f picks entries of l at strictly increasing positions
IsOrderedSublist(f, l) ==
    \E idx \in [DOMAIN f -> DOMAIN l] :
        /\ \A k \in DOMAIN f : f[k] = l[idx[k]]
        /\ \A j, k \in DOMAIN f : j < k => idx[j] < idx[k]

\* the links among the first n of l that have not answered ok
FailedAmong(l, n) ==
    SelectSeq(SubSeq(l, 1, Min(n, Len(l))), LAMBDA x : x \notin succeeded)

\* C23: the failed list of a pass picks links of the pass's input list in their
\* input order, none added and none twice, and after each chunk it is exactly
\* the links handled so far whose probe failed in this pass, whatever the order
\* in which the pings of the chunk returned: runs that differ only in that
\* order return the same failed list.
C23_FailedListInInputOrder ==
    pc = "pass" =>
        /\ IsOrderedSublist(failedLinks, links)
        /\ ppc \in {"loop", "ret"} => failedLinks = FailedAmong(links, i)

C23_Witness ==
    /\ pc = "pass" /\ ppc = "ret"
    /\ Concurrent
    /\ Len(links) = MaxLinks
    /\ Len(settled) = MaxLinks
    /\ settled[1] > settled[2]
    /\ links[settled[1]] \in Range(failedLinks)
    /\ links[settled[2]] \in Range(failedLinks)
    /\ Len(failedLinks) < Len(links)

====
